---- MODULE Spec2Model ----
(***************************************************************************)
(* The /chat endpoint of the therapeutic assistant (src/main.py): the      *)
(* emergency filter, the phase classifier, the prompt assembly, the call   *)
(* to the completion API and the validation of its reply.                  *)
(*                                                                         *)
(* Text that the code inspects character by character (the message the     *)
(* emergency pattern is searched in) is a sequence of one-character        *)
(* strings.  JSON values are tagged records: [ty |-> "str", s |-> ..],     *)
(* [ty |-> "num", n |-> ..], [ty |-> "null"], [ty |-> "list", items |->    *)
(* <<..>>] and [ty |-> "obj", fields |-> [key |-> value, ..]].  Numbers    *)
(* are counted in tenths, so 1.0 is 10 and 1.5 is 15.                      *)
(***************************************************************************)
EXTENDS Integers, Sequences, FiniteSets, TLC

VARIABLES client_api_key, EMERGENCY_RESPONSE, req

vars == <<client_api_key, EMERGENCY_RESPONSE, req>>

(***************************************************************************)
(* Bounds of the model.                                                    *)
(***************************************************************************)
NumRequests == 2
MaxHistory == 4
MaxActions == 4
MaxEvidence == 2

Requests == 1..NumRequests

(***************************************************************************)
(* Characters and case.                                                    *)
(***************************************************************************)
LowerLetters == <<"a","b","c","d","e","f","g","h","i","j","k","l","m",
                  "n","o","p","q","r","s","t","u","v","w","x","y","z">>
UpperLetters == <<"A","B","C","D","E","F","G","H","I","J","K","L","M",
                  "N","O","P","Q","R","S","T","U","V","W","X","Y","Z">>
Digits == {"0","1","2","3","4","5","6","7","8","9"}

Range(f) == {f[i] : i \in DOMAIN f}

\* re.IGNORECASE compares characters after case folding
Lower(c) ==
    IF \E i \in DOMAIN UpperLetters : UpperLetters[i] = c
    THEN LowerLetters[CHOOSE i \in DOMAIN UpperLetters : UpperLetters[i] = c]
    ELSE c

Upper(c) ==
    IF \E i \in DOMAIN LowerLetters : LowerLetters[i] = c
    THEN UpperLetters[CHOOSE i \in DOMAIN LowerLetters : LowerLetters[i] = c]
    ELSE c

LowerText(s) == [k \in DOMAIN s |-> Lower(s[k])]
UpperText(s) == [k \in DOMAIN s |-> Upper(s[k])]

\* the regular expression class \w
IsWordChar(c) == c \in Range(LowerLetters) \cup Range(UpperLetters) \cup Digits \cup {"_"}

(***************************************************************************)
(* Safety layer: EMERGENCY_PATTERN.                                        *)
(***************************************************************************)
\* the alternatives of the pattern, in the order of the source
EMERGENCY_TERMS ==
    << <<"s","u","i","c","i","d","e">>,
       <<"k","i","l","l"," ","m","y","s","e","l","f">>,
       <<"w","a","n","t"," ","t","o"," ","d","i","e">>,
       <<"c","h","e","s","t"," ","p","a","i","n">>,
       <<"c","a","n","'","t"," ","b","r","e","a","t","h","e">>,
       <<"c","a","n","t"," ","b","r","e","a","t","h","e">>,
       <<"h","e","a","r","t"," ","a","t","t","a","c","k">>,
       <<"t","r","o","u","b","l","e"," ","b","r","e","a","t","h","i","n","g">>,
       <<"o","v","e","r","d","o","s","e">>,
       <<"I"," ","a","m"," ","i","n"," ","d","a","n","g","e","r">>,
       <<"i","m"," ","i","n"," ","d","a","n","g","e","r">>,
       <<"d","i","e">> >>

\* \b at offset i of s (between s[i] and s[i+1]): exactly one side is a word character
WordBoundary(s, i) ==
    LET before == i >= 1 /\ IsWordChar(s[i])
        after == i < Len(s) /\ IsWordChar(s[i + 1])
    IN before # after

\* a faulty variant: the pattern compiled without re.IGNORECASE
MatchLiteralAtCaseSensitive(s, i, t) ==
    /\ i + Len(t) <= Len(s)
    /\ \A k \in 1..Len(t) : s[i + k] = t[k]

\* the literal t matches s from offset i on, ignoring case
MatchLiteralAt(s, i, t) ==
    /\ i + Len(t) <= Len(s)
    /\ \A k \in 1..Len(t) : Lower(s[i + k]) = Lower(t[k])

\* EMERGENCY_PATTERN.search(message) finds a match
EMERGENCY_PATTERN_search(s) ==
    \E i \in 0..Len(s) : \E a \in DOMAIN EMERGENCY_TERMS :
        /\ WordBoundary(s, i)
        /\ MatchLiteralAt(s, i, EMERGENCY_TERMS[a])
        /\ WordBoundary(s, i + Len(EMERGENCY_TERMS[a]))

(***************************************************************************)
(* The messages a caller sends: every crisis term in four spellings,       *)
(* alone or glued to or separated from other text, and harmless text.      *)
(***************************************************************************)
Capitalised(s) == [k \in DOMAIN s |-> IF k = 1 THEN Upper(s[k]) ELSE s[k]]

TermSpellings ==
    UNION {{EMERGENCY_TERMS[a], LowerText(EMERGENCY_TERMS[a]),
            UpperText(EMERGENCY_TERMS[a]), Capitalised(EMERGENCY_TERMS[a])}
           : a \in DOMAIN EMERGENCY_TERMS}

Prefixes == {<<>>, <<"o","h"," ">>, <<"x">>}
Suffixes == {<<>>, <<".">>, <<"t">>, <<"_","1">>}

HarmlessMessages ==
    {<<"h","e","l","l","o">>,
     <<"I"," ","f","e","e","l"," ","s","a","d">>,
     <<"k","i","l","l"," "," ","m","y","s","e","l","f">>,
     <<"s","u","i","c","i","d","a","l">>,
     <<>>}

Messages ==
    {p \o t \o s : p \in Prefixes, t \in TermSpellings, s \in Suffixes}
        \cup HarmlessMessages

BaseMessages == {<<"h","e","l","l","o">>, <<"I"," ","w","a","n","t"," ","t","o"," ","d","i","e">>}

(***************************************************************************)
(* The histories a caller sends: role/content dictionaries.  The role may  *)
(* be any string and may be absent.                                        *)
(***************************************************************************)
HistoryEntries ==
    {[role |-> "user", content |-> "I have been stressed about work"],
     [role |-> "user", content |-> "sometimes I want to die"],
     [role |-> "assistant", content |-> "{\"intent\": \"self-care\"}"],
     [role |-> "User", content |-> "I have been stressed about work"],
     [content |-> "I have been stressed about work"]}

Histories == UNION {[1..n -> HistoryEntries] : n \in 0..MaxHistory}

BaseHistories == {<<>>}

\* what one request brings: its message and its history
ChatRequests ==
    {[message |-> m, history |-> h] : m \in Messages, h \in BaseHistories}
        \cup {[message |-> m, history |-> h] : m \in BaseMessages, h \in Histories}

\* msg.get("role")
DictGet(d, key) == IF key \in DOMAIN d THEN d[key] ELSE "None"

(***************************************************************************)
(* JSON values.                                                            *)
(***************************************************************************)
Str(x) == [ty |-> "str", s |-> x]
Num(k) == [ty |-> "num", n |-> k]
Null == [ty |-> "null"]
List(xs) == [ty |-> "list", items |-> xs]
Obj(f) == [ty |-> "obj", fields |-> f]

SeqsUpTo(S, n) == UNION {[1..k -> S] : k \in 0..n}

\* a record with one field removed, one field replaced, one field added
Without(f, key) == [k \in DOMAIN f \ {key} |-> f[k]]
With(f, key, v) == [k \in DOMAIN f \cup {key} |-> IF k = key THEN v ELSE f[k]]

(***************************************************************************)
(* Canned emergency response.                                              *)
(***************************************************************************)
EmergencySummary == "It sounds like you might be in immediate danger or experiencing a medical emergency. Please seek help right now."
EmergencyActionText == "Please contact your local emergency services immediately (for example, 911 or 999), or go to the nearest emergency room. If possible, also reach out to a trusted person near you."

\* the dictionary the module binds to EMERGENCY_RESPONSE when it is loaded
CannedEmergencyResponse ==
    Obj([intent |-> Str("escalate"),
         summary |-> Str(EmergencySummary),
         actions |-> List(<<Obj([type |-> Str("seek-professional"),
                                 text |-> Str(EmergencyActionText)])>>),
         confidence |-> Num(10),
         evidence |-> List(<<>>)])

(***************************************************************************)
(* Pydantic models: ActionItem, EvidenceItem, ChatResponse.                *)
(***************************************************************************)
IntentValues == {"self-care", "refer", "escalate", "out-of-scope"}
ActionTypes == {"self-care", "seek-professional", "information"}
\* Field(..., ge=0.0, le=1.0), in tenths
ConfidenceGe == 0
ConfidenceLe == 10

\* the strings float() reads as a number, with the number read (in tenths)
FloatOfStr == ("0.5" :> 5) @@ ("1.5" :> 15)

IsStrField(f, key) == key \in DOMAIN f /\ f[key].ty = "str"

IsLiteralField(f, key, allowed) == IsStrField(f, key) /\ f[key].s \in allowed

\* a float field takes a number, and a string that reads as a number (the
\* validator's default mode converts it); the bounds apply to the value read
FloatFieldReadable(f, key) ==
    /\ key \in DOMAIN f
    /\ \/ f[key].ty = "num"
       \/ f[key].ty = "str" /\ f[key].s \in DOMAIN FloatOfStr

FloatFieldValue(f, key) == IF f[key].ty = "num" THEN f[key].n ELSE FloatOfStr[f[key].s]

ActionItemValid(v) ==
    /\ v.ty = "obj"
    /\ IsLiteralField(v.fields, "type", ActionTypes)
    /\ IsStrField(v.fields, "text")

ActionItem(v) == [type |-> v.fields["type"].s, text |-> v.fields["text"].s]

EvidenceItemValid(v) ==
    /\ v.ty = "obj"
    /\ IsStrField(v.fields, "title")
    /\ IsStrField(v.fields, "source")
    /\ IsStrField(v.fields, "link")

EvidenceItem(v) ==
    [title |-> v.fields["title"].s, source |-> v.fields["source"].s, link |-> v.fields["link"].s]

IsListField(f, key) == key \in DOMAIN f /\ f[key].ty = "list"

\* a faulty variant: the upper bound of confidence (le=1.0) left out
ChatResponseValidNoUpperBound(f) ==
    /\ IsLiteralField(f, "intent", IntentValues)
    /\ IsStrField(f, "summary")
    /\ IsListField(f, "actions")
    /\ \A i \in DOMAIN f["actions"].items : ActionItemValid(f["actions"].items[i])
    /\ FloatFieldReadable(f, "confidence")
    /\ FloatFieldValue(f, "confidence") >= ConfidenceGe
    /\ IsListField(f, "evidence")
    /\ \A i \in DOMAIN f["evidence"].items : EvidenceItemValid(f["evidence"].items[i])

ChatResponseValid(f) ==
    /\ IsLiteralField(f, "intent", IntentValues)
    /\ IsStrField(f, "summary")
    /\ IsListField(f, "actions")
    /\ \A i \in DOMAIN f["actions"].items : ActionItemValid(f["actions"].items[i])
    /\ FloatFieldReadable(f, "confidence")
    /\ FloatFieldValue(f, "confidence") >= ConfidenceGe
    /\ FloatFieldValue(f, "confidence") <= ConfidenceLe
    /\ IsListField(f, "evidence")
    /\ \A i \in DOMAIN f["evidence"].items : EvidenceItemValid(f["evidence"].items[i])

\* ChatResponse(**response_data): the model built, or the exception raised
ChatResponse(data) ==
    IF data.ty # "obj"
    THEN [ok |-> FALSE, exc |-> [type |-> "TypeError", msg |-> <<"argument after ** must be a mapping">>]]
    ELSE IF ~ChatResponseValid(data.fields)
    THEN [ok |-> FALSE, exc |-> [type |-> "ValidationError", msg |-> <<"validation error for ChatResponse">>]]
    ELSE [ok |-> TRUE,
          value |-> [intent |-> data.fields["intent"].s,
                     summary |-> data.fields["summary"].s,
                     actions |-> [i \in DOMAIN data.fields["actions"].items |->
                                     ActionItem(data.fields["actions"].items[i])],
                     confidence |-> FloatFieldValue(data.fields, "confidence"),
                     evidence |-> [i \in DOMAIN data.fields["evidence"].items |->
                                      EvidenceItem(data.fields["evidence"].items[i])]]]

\* the body the framework writes for a returned ChatResponse (response_model=ChatResponse)
SerializeChatResponse(m) ==
    Obj([intent |-> Str(m.intent),
         summary |-> Str(m.summary),
         actions |-> List([i \in DOMAIN m.actions |->
                              Obj([type |-> Str(m.actions[i].type), text |-> Str(m.actions[i].text)])]),
         confidence |-> Num(m.confidence),
         evidence |-> List([i \in DOMAIN m.evidence |->
                               Obj([title |-> Str(m.evidence[i].title),
                                    source |-> Str(m.evidence[i].source),
                                    link |-> Str(m.evidence[i].link)])])])

(***************************************************************************)
(* What the completion API may do with one call: raise, return no choice,  *)
(* or return one completion whose content is None, empty, text that is not *)
(* JSON, or the text of a JSON value.                                      *)
(***************************************************************************)
ContentNone == [c |-> "None"]
ContentText(raw) == [c |-> "text", json |-> FALSE, raw |-> raw]
ContentJson(v) == [c |-> "text", json |-> TRUE, value |-> v]

ApiRaises(message) == [kind |-> "raise", exc |-> [type |-> "APIError", msg |-> <<message>>]]
ApiReturns(choices) == [kind |-> "return", choices |-> choices]

\* n valid actions, of two kinds in turn
ActionsInTurn(n) ==
    [i \in 1..n |->
        IF i % 2 = 1
        THEN Obj([type |-> Str("self-care"), text |-> Str("Try a 5-minute slow breathing exercise.")])
        ELSE Obj([type |-> Str("seek-professional"), text |-> Str("Consider booking a session with a therapist.")])]

\* the empty sequence and every run of consecutive elements of xs
Windows(xs) == {<<>>} \cup {SubSeq(xs, i, j) : i \in 1..Len(xs), j \in 1..Len(xs)}

BadActions ==
    {Obj([type |-> Str("exercise"), text |-> Str("Go for a run.")]),
     Obj([type |-> Str("self-care")]),
     Obj([type |-> Null, text |-> Str("Go for a run.")]),
     Obj([type |-> Str("self-care"), text |-> Null]),
     Str("Go for a run.")}

ExtraKeyAction ==
    Obj([type |-> Str("self-care"), text |-> Str("Keep a journal."), priority |-> Num(10)])

GoodEvidence ==
    {Obj([title |-> Str("Coping with Anxiety"), source |-> Str("NHS"), link |-> Str("https://www.nhs.uk/")]),
     Obj([title |-> Str("Stress"), source |-> Str("CDC"), link |-> Str("https://www.cdc.gov/")])}

BadEvidence ==
    {Obj([title |-> Str("Coping with Anxiety"), source |-> Str("NHS")]),
     Obj([title |-> Str("Coping with Anxiety"), source |-> Null, link |-> Str("https://www.nhs.uk/")]),
     Null}

BaseFields ==
    [intent |-> Str("self-care"),
     summary |-> Str("It sounds like you have been feeling overwhelmed."),
     actions |-> List(<<Obj([type |-> Str("information"), text |-> Str("Read about sleep hygiene.")])>>),
     confidence |-> Num(7),
     evidence |-> List(<<Obj([title |-> Str("Understanding Low Mood"), source |-> Str("WHO"),
                              link |-> Str("https://www.who.int/")])>>)]

DeclaredFields == {"intent", "summary", "actions", "confidence", "evidence"}

\* the JSON objects a completion may hold: the base object with one part varied
CompletionObjects ==
    {With(BaseFields, "actions", List(a)) : a \in Windows(ActionsInTurn(MaxActions))}
        \cup {With(BaseFields, "actions", List(<<a>>)) : a \in BadActions \cup {ExtraKeyAction}}
        \cup {With(BaseFields, "evidence", List(e)) : e \in SeqsUpTo(GoodEvidence, MaxEvidence)}
        \cup {With(BaseFields, "evidence", List(<<e>>)) : e \in BadEvidence}
        \cup {With(With(BaseFields, "actions", List(<<>>)), "evidence", List(<<>>))}
        \cup {With(BaseFields, "confidence", c) :
                 c \in {Num(0), Num(10), Num(15), Num(0 - 1), Str("0.5"), Str("1.5"), Str("high"), Null}}
        \cup {With(BaseFields, "intent", i) :
                 i \in {Str("refer"), Str("escalate"), Str("out-of-scope"), Str("diagnose"), Num(10), Null}}
        \cup {With(BaseFields, "summary", Null), With(BaseFields, "actions", Str("none")),
              With(BaseFields, "actions", Null), With(BaseFields, "evidence", Str("none"))}
        \cup {Without(BaseFields, k) : k \in DeclaredFields}
        \cup {With(BaseFields, "disclaimer", Str("I am not a doctor."))}

Completions ==
    {ApiRaises("Connection error."), ApiRaises("Rate limit reached"), ApiReturns(<<>>),
     ApiReturns(<<ContentNone>>), ApiReturns(<<ContentText("")>>),
     ApiReturns(<<ContentText("Sorry, I cannot help with that.")>>),
     ApiReturns(<<ContentText("{\"intent\": \"self-care\", \"summ")>>),
     ApiReturns(<<ContentJson(List(<<>>))>>), ApiReturns(<<ContentJson(Null)>>),
     ApiReturns(<<ContentJson(Str("self-care"))>>)}
        \cup {ApiReturns(<<ContentJson(Obj(f))>>) : f \in CompletionObjects}

BaseCompletions ==
    {ApiRaises("Connection error."),
     ApiReturns(<<ContentText("Sorry, I cannot help with that.")>>),
     ApiReturns(<<ContentJson(Obj(BaseFields))>>),
     ApiReturns(<<ContentJson(Obj(Without(BaseFields, "summary")))>>)}

(***************************************************************************)
(* Helpers: build_phase_instruction.                                       *)
(***************************************************************************)
ExplorationText ==
    <<"You are currently in the EXPLORATION phase of the conversation.",
      "- User messages so far (including current): {user_turn_count}.",
      "- DO NOT give concrete suggestions or techniques yet.",
      "- Focus on empathy and understanding.",
      "- Ask 1-2 gentle, open-ended questions to better understand what they are going through.",
      "- The 'actions' field in your JSON MUST be an empty list: [].",
      "- The 'evidence' field in your JSON MUST be an empty list: [].",
      "- 'intent' will usually be 'self-care' unless you need to 'refer' or 'escalate'.">>

GuidanceText ==
    <<"You are now in the GUIDANCE phase of the conversation.",
      "- User messages so far (including current): {user_turn_count}.",
      "- You have enough context to offer personalized support.",
      "- Provide 1-3 concrete, realistic next steps in 'actions'.",
      "- Provide exactly ONE appropriate resource in 'evidence' (WHO, NHS, or APA).",
      "- Maintain empathy and validation while giving guidance.">>

\* a faulty variant: the threshold taken strictly
build_phase_instruction_strict(user_turn_count) ==
    IF user_turn_count < 3
    THEN [template |-> ExplorationText, user_turn_count |-> user_turn_count]
    ELSE [template |-> GuidanceText, user_turn_count |-> user_turn_count]

\* the f-string: the template and the value put in its placeholder
build_phase_instruction(user_turn_count) ==
    IF user_turn_count <= 3
    THEN [template |-> ExplorationText, user_turn_count |-> user_turn_count]
    ELSE [template |-> GuidanceText, user_turn_count |-> user_turn_count]

(***************************************************************************)
(* Exceptions and responses.                                               *)
(***************************************************************************)
HTTPException(status_code, detail) ==
    [type |-> "HTTPException", status_code |-> status_code, detail |-> detail]

\* str(e): an HTTPException prints as "<status_code>: <detail>", any other
\* exception as its message
StrOfException(e) ==
    IF e.type = "HTTPException" THEN <<ToString(e.status_code), ": ">> \o e.detail ELSE e.msg

Returned(value) == [raised |-> FALSE, value |-> value]
Raised(e) == [raised |-> TRUE, exc |-> e]

\* the framework's answer to a handler that returned a ChatResponse, and to one
\* that raised an HTTPException
StructuredResponse(m) == [status_code |-> 200, body |-> SerializeChatResponse(m)]
ErrorResponse(e) == [status_code |-> e.status_code, detail |-> e.detail]

Unset == [unset |-> TRUE]

MissingKeyDetail == "OPENAI_API_KEY not configured on the server. Please set the environment variable."
InvalidJsonDetail == "LLM returned invalid JSON."
ValidationFailedDetail == "LLM response validation failed: "
EmptyResponseDetail == "LLM returned an empty response."
ErrorOccurredDetail == "An error occurred: "

(***************************************************************************)
(* /chat, step 5: parse and validate the completion (inside the try).      *)
(***************************************************************************)
\* bool(response_content)
Truthy(content) == content.c = "text" /\ (content.json \/ content.raw # "")

\* json.loads(response_content)
json_loads(content) ==
    IF content.json
    THEN Returned(content.value)
    ELSE Raised([type |-> "JSONDecodeError", msg |-> <<"Expecting value">>])

\* a faulty variant: no handler of its own for json.JSONDecodeError
ParseAndValidateOneHandler(content) ==
    IF Truthy(content)
    THEN LET data == json_loads(content)
         IN IF data.raised
            THEN Raised(HTTPException(500, <<ValidationFailedDetail>> \o StrOfException(data.exc)))
            ELSE LET validated_response == ChatResponse(data.value)
                 IN IF validated_response.ok
                    THEN Returned(validated_response.value)
                    ELSE Raised(HTTPException(500,
                             <<ValidationFailedDetail>> \o StrOfException(validated_response.exc)))
    ELSE Raised(HTTPException(500, <<EmptyResponseDetail>>))

ParseAndValidate(content) ==
    IF Truthy(content)
    THEN LET data == json_loads(content)
         IN IF data.raised
            THEN Raised(HTTPException(500, <<InvalidJsonDetail>>))
            ELSE LET validated_response == ChatResponse(data.value)
                 IN IF validated_response.ok
                    THEN Returned(validated_response.value)
                    ELSE Raised(HTTPException(500,
                             <<ValidationFailedDetail>> \o StrOfException(validated_response.exc)))
    ELSE Raised(HTTPException(500, <<EmptyResponseDetail>>))

\* the body of the outer try, from the completion API's answer on
TryBody(outcome) ==
    IF outcome.kind = "raise"
    THEN Raised(outcome.exc)
    ELSE IF outcome.choices = <<>>
    THEN Raised([type |-> "IndexError", msg |-> <<"list index out of range">>])
    ELSE ParseAndValidate(outcome.choices[1])

\* the outer try with its except Exception: whatever was raised inside, the
\* handler's own HTTPException included, is raised again as a new HTTPException
TryExcept(outcome) ==
    LET done == TryBody(outcome)
    IN IF done.raised
       THEN Raised(HTTPException(500, <<ErrorOccurredDetail>> \o StrOfException(done.exc)))
       ELSE done

(***************************************************************************)
(* The requests.                                                           *)
(***************************************************************************)
Received(cr) ==
    [pc |-> "received", message |-> cr.message, history |-> cr.history,
     user_turn_count |-> 0, phase_instruction |-> Unset, messages |-> <<>>,
     calls |-> 0, completion |-> Unset, response |-> Unset]

\* a request nobody sent
Idle ==
    [pc |-> "idle", message |-> <<>>, history |-> <<>>,
     user_turn_count |-> 0, phase_instruction |-> Unset, messages |-> <<>>,
     calls |-> 0, completion |-> Unset, response |-> Unset]

ConcurrentRequests ==
    {[message |-> m, history |-> h] :
        m \in BaseMessages,
        h \in {<<>>, [i \in 1..3 |-> [role |-> "user", content |-> "I have been stressed about work"]]}}

InitGlobals ==
    /\ client_api_key \in {"", "sk-test"}
    /\ EMERGENCY_RESPONSE = CannedEmergencyResponse

\* one request, any message, history and credential
Init ==
    /\ InitGlobals
    /\ \E cr \in ChatRequests : req = [r \in Requests |-> IF r = 1 THEN Received(cr) ELSE Idle]

\* every request in flight at once
InitConcurrent ==
    /\ InitGlobals
    /\ req \in [Requests -> {Received(cr) : cr \in ConcurrentRequests}]

Set(r, changes) ==
    req' = [req EXCEPT ![r] = [k \in DOMAIN req[r] |->
                                  IF k \in DOMAIN changes THEN changes[k] ELSE req[r][k]]]

(***************************************************************************)
(* /chat, step by step.                                                    *)
(***************************************************************************)
\* a faulty variant: the canned object changed in place while it is returned
SafetyLayerEditingCanned(r) ==
    /\ req[r].pc = "received"
    /\ IF EMERGENCY_PATTERN_search(req[r].message)
       THEN /\ Set(r, [pc |-> "respond-canned",
                       response |-> [status_code |-> 200, body |-> EMERGENCY_RESPONSE]])
            /\ EMERGENCY_RESPONSE' = Obj(Without(EMERGENCY_RESPONSE.fields, "actions"))
       ELSE /\ Set(r, [pc |-> "not-emergency"])
            /\ UNCHANGED EMERGENCY_RESPONSE
    /\ UNCHANGED client_api_key

\* 1. safety layer
SafetyLayer(r) ==
    /\ req[r].pc = "received"
    /\ IF EMERGENCY_PATTERN_search(req[r].message)
       THEN Set(r, [pc |-> "respond-canned",
                    response |-> [status_code |-> 200, body |-> EMERGENCY_RESPONSE]])
       ELSE Set(r, [pc |-> "not-emergency"])
    /\ UNCHANGED <<client_api_key, EMERGENCY_RESPONSE>>

\* a faulty variant: every history entry counted, whatever its role
CountAllTurns(history) == Len(history)

RECURSIVE CountUserTurns(_)
\* sum(1 for msg in request.history if msg.get("role") == "user")
CountUserTurns(history) ==
    IF history = <<>>
    THEN 0
    ELSE (IF DictGet(Head(history), "role") = "user" THEN 1 ELSE 0) + CountUserTurns(Tail(history))

\* 2. determine the conversation phase
DeterminePhase(r) ==
    /\ req[r].pc = "not-emergency"
    /\ LET user_turns_in_history == CountUserTurns(req[r].history)
           user_turn_count == user_turns_in_history + 1
       IN Set(r, [pc |-> "phase-classified",
                  user_turn_count |-> user_turn_count,
                  phase_instruction |-> build_phase_instruction(user_turn_count)])
    /\ UNCHANGED <<client_api_key, EMERGENCY_RESPONSE>>

SYSTEM_PROMPT == "You are a friendly, empathetic and supportive Health Assistant. ..."

\* 3. construct the prompt
ConstructPrompt(r) ==
    /\ req[r].pc = "phase-classified"
    /\ Set(r, [pc |-> "prompt-assembled",
               messages |-> <<[role |-> "system", content |-> SYSTEM_PROMPT],
                              [role |-> "system", content |-> req[r].phase_instruction]>>
                            \o req[r].history
                            \o <<[role |-> "user", content |-> req[r].message]>>])
    /\ UNCHANGED <<client_api_key, EMERGENCY_RESPONSE>>

\* a faulty variant: the call made without looking at the key
CallOpenAIKeyUnchecked(r, behaviours) ==
    /\ req[r].pc = "prompt-assembled"
    /\ \E outcome \in behaviours :
           Set(r, [pc |-> "gateway-called",
                   calls |-> req[r].calls + 1,
                   completion |-> outcome])
    /\ UNCHANGED <<client_api_key, EMERGENCY_RESPONSE>>

\* 4. call the completion API, unless no key is configured
CallOpenAI(r, behaviours) ==
    /\ req[r].pc = "prompt-assembled"
    /\ IF client_api_key = ""
       THEN Set(r, [pc |-> "respond-error",
                    response |-> ErrorResponse(HTTPException(500, <<MissingKeyDetail>>))])
       ELSE \E outcome \in behaviours :
               Set(r, [pc |-> "gateway-called",
                       calls |-> req[r].calls + 1,
                       completion |-> outcome])
    /\ UNCHANGED <<client_api_key, EMERGENCY_RESPONSE>>

\* a faulty variant: the cardinalities of the phase checked after validation
RespondEnforcingPhase(r) ==
    /\ req[r].pc = "gateway-called"
    /\ LET done == TryExcept(req[r].completion)
           exploring == req[r].phase_instruction.template = ExplorationText
       IN IF done.raised
          THEN Set(r, [pc |-> "respond-error", response |-> ErrorResponse(done.exc)])
          ELSE IF exploring /\ (done.value.actions # <<>> \/ done.value.evidence # <<>>)
          THEN Set(r, [pc |-> "respond-error",
                       response |-> ErrorResponse(HTTPException(500, <<ValidationFailedDetail>>))])
          ELSE Set(r, [pc |-> "respond-structured", response |-> StructuredResponse(done.value)])
    /\ UNCHANGED <<client_api_key, EMERGENCY_RESPONSE>>

\* a faulty variant: a failed call made once more
RespondRetrying(r) ==
    /\ req[r].pc = "gateway-called"
    /\ LET done == TryExcept(req[r].completion)
       IN IF req[r].completion.kind = "raise" /\ req[r].calls < 2
          THEN Set(r, [pc |-> "prompt-assembled"])
          ELSE IF done.raised
          THEN Set(r, [pc |-> "respond-error", response |-> ErrorResponse(done.exc)])
          ELSE Set(r, [pc |-> "respond-structured", response |-> StructuredResponse(done.value)])
    /\ UNCHANGED <<client_api_key, EMERGENCY_RESPONSE>>

\* 5. parse and validate, and answer
Respond(r) ==
    /\ req[r].pc = "gateway-called"
    /\ LET done == TryExcept(req[r].completion)
       IN IF done.raised
          THEN Set(r, [pc |-> "respond-error", response |-> ErrorResponse(done.exc)])
          ELSE Set(r, [pc |-> "respond-structured", response |-> StructuredResponse(done.value)])
    /\ UNCHANGED <<client_api_key, EMERGENCY_RESPONSE>>

Next ==
    \E r \in Requests :
        \/ SafetyLayer(r)
        \/ DeterminePhase(r)
        \/ ConstructPrompt(r)
        \/ CallOpenAI(r, Completions)
        \/ Respond(r)

NextConcurrent ==
    \E r \in Requests :
        \/ SafetyLayer(r)
        \/ DeterminePhase(r)
        \/ ConstructPrompt(r)
        \/ CallOpenAI(r, BaseCompletions)
        \/ Respond(r)

Spec == Init /\ [][Next]_vars

SpecConcurrent == InitConcurrent /\ [][NextConcurrent]_vars

(***************************************************************************)
(* Vocabulary of the properties.                                           *)
(***************************************************************************)
Terminal == {"respond-canned", "respond-structured", "respond-error"}

Answered(r) == req[r].pc \in Terminal

\* the term t occurs in m, in any letter case, with no word character next to it
OccursAsWholeWord(m, t) ==
    \E i \in 1..(Len(m) - Len(t) + 1) :
        /\ i = 1 \/ ~IsWordChar(m[i - 1])
        /\ i + Len(t) - 1 = Len(m) \/ ~IsWordChar(m[i + Len(t)])
        /\ LowerText(SubSeq(m, i, i + Len(t) - 1)) = LowerText(t)

IsCrisisMessage(m) == \E t \in Range(EMERGENCY_TERMS) : OccursAsWholeWord(m, t)

\* the completion API was called for r and returned the text of a JSON value
GotJson(r) ==
    /\ req[r].calls = 1
    /\ req[r].completion.kind = "return"
    /\ req[r].completion.choices # <<>>
    /\ req[r].completion.choices[1].c = "text"
    /\ req[r].completion.choices[1].json

JsonGot(r) == req[r].completion.choices[1].value

\* the number of history entries whose role is user
PriorUserTurns(r) ==
    Cardinality({i \in DOMAIN req[r].history :
                    "role" \in DOMAIN req[r].history[i] /\ req[r].history[i].role = "user"})

(***************************************************************************)
(* C1: a request whose message contains a crisis term as a whole word, in  *)
(* any letter case, is answered with the canned emergency object and with  *)
(* no call to the completion API, whatever the credential and the history. *)
(***************************************************************************)
C1_EmergencyAnsweredCanned ==
    \A r \in Requests :
        (req[r].pc \notin {"idle", "received"} /\ IsCrisisMessage(req[r].message))
            => /\ req[r].pc = "respond-canned"
               /\ req[r].response = [status_code |-> 200, body |-> CannedEmergencyResponse]
               /\ req[r].calls = 0

\* a crisis message with capital letters, sent with a history while no key is configured
C1_Witness ==
    \E r \in Requests :
        /\ req[r].pc = "respond-canned"
        /\ client_api_key = ""
        /\ req[r].message # LowerText(req[r].message)
        /\ req[r].history # <<>>

(***************************************************************************)
(* C2, as stated: with no credential configured every request is answered  *)
(* with HTTP 500 and the missing-configuration detail, and the completion  *)
(* API is not called.                                                      *)
(***************************************************************************)
C2_Original ==
    \A r \in Requests :
        (client_api_key = "" /\ req[r].pc # "idle")
            => /\ req[r].calls = 0
               /\ Answered(r) => /\ req[r].response.status_code = 500
                                 /\ req[r].response.detail = <<MissingKeyDetail>>

(***************************************************************************)
(* C2, amended: with no credential configured the completion API is never  *)
(* called, and every request whose message is not a crisis message is      *)
(* answered with HTTP 500 and the missing-configuration detail (a crisis   *)
(* message is answered with the canned object before the key is looked     *)
(* at).                                                                    *)
(***************************************************************************)
C2_NoCredentialFailsFast ==
    \A r \in Requests :
        (client_api_key = "" /\ req[r].pc # "idle")
            => /\ req[r].calls = 0
               /\ req[r].pc # "gateway-called"
               /\ (Answered(r) /\ ~IsCrisisMessage(req[r].message))
                      => /\ req[r].pc = "respond-error"
                         /\ req[r].response.status_code = 500
                         /\ req[r].response.detail = <<MissingKeyDetail>>

C2_Witness ==
    \E r \in Requests :
        /\ client_api_key = ""
        /\ req[r].pc = "respond-error"
        /\ req[r].history # <<>>

(***************************************************************************)
(* C3: when the completion is the text of a JSON object of exactly the     *)
(* ChatResponse shape, the request is answered with HTTP 200 and a body    *)
(* equal to that object, in the exploration phase as in the guidance       *)
(* phase, whatever the number of actions and evidence items.               *)
(***************************************************************************)
IsStr(v) == v.ty = "str"

MatchesActionItem(v) ==
    /\ v.ty = "obj"
    /\ DOMAIN v.fields = {"type", "text"}
    /\ IsStr(v.fields["type"]) /\ v.fields["type"].s \in ActionTypes
    /\ IsStr(v.fields["text"])

MatchesEvidenceItem(v) ==
    /\ v.ty = "obj"
    /\ DOMAIN v.fields = {"title", "source", "link"}
    /\ \A k \in DOMAIN v.fields : IsStr(v.fields[k])

MatchesChatResponse(v) ==
    /\ v.ty = "obj"
    /\ DOMAIN v.fields = DeclaredFields
    /\ IsStr(v.fields["intent"]) /\ v.fields["intent"].s \in IntentValues
    /\ IsStr(v.fields["summary"])
    /\ v.fields["actions"].ty = "list"
    /\ \A i \in DOMAIN v.fields["actions"].items : MatchesActionItem(v.fields["actions"].items[i])
    /\ v.fields["confidence"].ty = "num"
    /\ v.fields["confidence"].n >= 0 /\ v.fields["confidence"].n <= 10
    /\ v.fields["evidence"].ty = "list"
    /\ \A i \in DOMAIN v.fields["evidence"].items : MatchesEvidenceItem(v.fields["evidence"].items[i])

TypeOf(f, key) == IF key \in DOMAIN f THEN f[key].ty ELSE "absent"

ItemsOf(f, key) == IF TypeOf(f, key) = "list" THEN Range(f[key].items) ELSE {}

ObjectItemsOf(f, key) == {x \in ItemsOf(f, key) : x.ty = "obj"}

HasMissingField(f) ==
    \/ ~(DeclaredFields \subseteq DOMAIN f)
    \/ \E a \in ObjectItemsOf(f, "actions") : ~({"type", "text"} \subseteq DOMAIN a.fields)
    \/ \E e \in ObjectItemsOf(f, "evidence") : ~({"title", "source", "link"} \subseteq DOMAIN e.fields)

\* a wrong type anywhere but in confidence
HasWrongTypeElsewhere(f) ==
    \/ TypeOf(f, "intent") \notin {"str", "absent"}
    \/ TypeOf(f, "summary") \notin {"str", "absent"}
    \/ TypeOf(f, "actions") \notin {"list", "absent"}
    \/ TypeOf(f, "evidence") \notin {"list", "absent"}
    \/ \E a \in ItemsOf(f, "actions") :
           \/ a.ty # "obj"
           \/ \E k \in {"type", "text"} : TypeOf(a.fields, k) \notin {"str", "absent"}
    \/ \E e \in ItemsOf(f, "evidence") :
           \/ e.ty # "obj"
           \/ \E k \in {"title", "source", "link"} : TypeOf(e.fields, k) \notin {"str", "absent"}

OutsideEnumeration(f) ==
    \/ TypeOf(f, "intent") = "str" /\ f["intent"].s \notin IntentValues
    \/ \E a \in ObjectItemsOf(f, "actions") :
           TypeOf(a.fields, "type") = "str" /\ a.fields["type"].s \notin ActionTypes

\* as the claim states it: confidence must be a JSON number, and one within [0.0, 1.0]
ViolatesSchemaAsStated(v) ==
    \/ v.ty # "obj"
    \/ /\ v.ty = "obj"
       /\ \/ HasMissingField(v.fields)
          \/ HasWrongTypeElsewhere(v.fields)
          \/ TypeOf(v.fields, "confidence") \notin {"num", "absent"}
          \/ TypeOf(v.fields, "confidence") = "num"
                 /\ (v.fields["confidence"].n < 0 \/ v.fields["confidence"].n > 10)
          \/ OutsideEnumeration(v.fields)

ReadsAsNumber(x) == x.ty = "num" \/ (x.ty = "str" /\ x.s \in DOMAIN FloatOfStr)

NumberRead(x) == IF x.ty = "num" THEN x.n ELSE FloatOfStr[x.s]

\* as the validator enforces it: confidence must read as a number, and the
\* number read must lie within [0.0, 1.0]
ViolatesSchemaAsEnforced(v) ==
    \/ v.ty # "obj"
    \/ /\ v.ty = "obj"
       /\ \/ HasMissingField(v.fields)
          \/ HasWrongTypeElsewhere(v.fields)
          \/ "confidence" \in DOMAIN v.fields /\ ~ReadsAsNumber(v.fields["confidence"])
          \/ "confidence" \in DOMAIN v.fields /\ ReadsAsNumber(v.fields["confidence"])
                 /\ (NumberRead(v.fields["confidence"]) < 0 \/ NumberRead(v.fields["confidence"]) > 10)
          \/ OutsideEnumeration(v.fields)

RejectedAsSchemaViolation(r) ==
    /\ req[r].pc = "respond-error"
    /\ req[r].response.status_code = 500
    /\ ValidationFailedDetail \in Range(req[r].response.detail)
    /\ InvalidJsonDetail \notin Range(req[r].response.detail)

(***************************************************************************)
(* C4, as stated: a completion that is valid JSON but has a missing field, *)
(* a field of the wrong type, a confidence outside [0.0, 1.0] or an intent *)
(* or action type outside its enumeration is answered with HTTP 500 and a  *)
(* detail that reports the failed validation, never with HTTP 200.         *)
(***************************************************************************)
C4_Original ==
    \A r \in Requests :
        (Answered(r) /\ GotJson(r) /\ ViolatesSchemaAsStated(JsonGot(r)))
            => RejectedAsSchemaViolation(r)

(***************************************************************************)
(* C4, amended: the same, except that a field of the wrong type is         *)
(* rejected only when the validator cannot convert it to the declared      *)
(* type: a confidence given as a string that reads as a number is          *)
(* converted, and rejected only when the number read is outside            *)
(* [0.0, 1.0].                                                             *)
(***************************************************************************)
C4_SchemaViolationRejected ==
    \A r \in Requests :
        (Answered(r) /\ GotJson(r) /\ ViolatesSchemaAsEnforced(JsonGot(r)))
            => RejectedAsSchemaViolation(r)

\* a completion with confidence 1.5 answered with HTTP 500
C4_Witness ==
    \E r \in Requests :
        /\ Answered(r) /\ GotJson(r)
        /\ JsonGot(r).ty = "obj"
        /\ TypeOf(JsonGot(r).fields, "confidence") = "num"
        /\ JsonGot(r).fields["confidence"].n = 15
        /\ RejectedAsSchemaViolation(r)

(***************************************************************************)
(* C5: a non-empty completion that is not JSON is answered with HTTP 500   *)
(* and a detail that reports invalid JSON, which is neither the detail of  *)
(* a failed validation nor that of a failed call.                          *)
(***************************************************************************)
GotMalformedText(r) ==
    /\ req[r].calls = 1
    /\ req[r].completion.kind = "return"
    /\ req[r].completion.choices # <<>>
    /\ req[r].completion.choices[1].c = "text"
    /\ ~req[r].completion.choices[1].json
    /\ req[r].completion.choices[1].raw # ""

C5_MalformedJsonReported ==
    \A r \in Requests :
        (Answered(r) /\ GotMalformedText(r))
            => /\ req[r].pc = "respond-error"
               /\ req[r].response.status_code = 500
               /\ InvalidJsonDetail \in Range(req[r].response.detail)
               /\ ValidationFailedDetail \notin Range(req[r].response.detail)
               /\ EmptyResponseDetail \notin Range(req[r].response.detail)
               /\ \A o \in Completions :
                      o.kind = "raise" => req[r].response.detail # <<ErrorOccurredDetail>> \o o.exc.msg

C5_Witness ==
    \E r \in Requests :
        /\ Answered(r) /\ GotMalformedText(r)
        /\ InvalidJsonDetail \in Range(req[r].response.detail)

(***************************************************************************)
(* C8, as stated: every body answered with HTTP 200 has an intent of the   *)
(* enumeration, at most 3 actions with types of the enumeration, a         *)
(* confidence within [0.0, 1.0], and at most 1 evidence item with a source *)
(* among WHO, NHS and APA.                                                 *)
(***************************************************************************)
EvidenceSources == {"WHO", "NHS", "APA"}

ConformsToDataModel(body) ==
    /\ body.fields["intent"].s \in IntentValues
    /\ Len(body.fields["actions"].items) <= 3
    /\ \A i \in DOMAIN body.fields["actions"].items :
           body.fields["actions"].items[i].fields["type"].s \in ActionTypes
    /\ body.fields["confidence"].n >= 0 /\ body.fields["confidence"].n <= 10
    /\ Len(body.fields["evidence"].items) <= 1
    /\ \A i \in DOMAIN body.fields["evidence"].items :
           body.fields["evidence"].items[i].fields["source"].s \in EvidenceSources

C8_Original ==
    \A r \in Requests :
        (Answered(r) /\ req[r].response.status_code = 200)
            => ConformsToDataModel(req[r].response.body)

(***************************************************************************)
(* C6: the turn count is the number of history entries whose role is user  *)
(* plus 1, and it alone chooses the instruction: the exploration text,     *)
(* which requires empty actions and evidence, up to 3, the guidance text,  *)
(* which requires 1-3 actions and exactly one evidence item, above 3.      *)
(***************************************************************************)
RequiresEmptyLists(template) ==
    /\ "- The 'actions' field in your JSON MUST be an empty list: []." \in Range(template)
    /\ "- The 'evidence' field in your JSON MUST be an empty list: []." \in Range(template)

RequiresActionsAndEvidence(template) ==
    /\ "- Provide 1-3 concrete, realistic next steps in 'actions'." \in Range(template)
    /\ "- Provide exactly ONE appropriate resource in 'evidence' (WHO, NHS, or APA)." \in Range(template)

Classified(r) == req[r].phase_instruction # Unset

C6_PhaseFromTurnCount ==
    \A r \in Requests :
        Classified(r)
            => /\ req[r].user_turn_count = PriorUserTurns(r) + 1
               /\ req[r].phase_instruction.user_turn_count = PriorUserTurns(r) + 1
               /\ PriorUserTurns(r) + 1 <= 3
                      => /\ req[r].phase_instruction.template = ExplorationText
                         /\ RequiresEmptyLists(req[r].phase_instruction.template)
                         /\ ~RequiresActionsAndEvidence(req[r].phase_instruction.template)
               /\ PriorUserTurns(r) + 1 > 3
                      => /\ req[r].phase_instruction.template = GuidanceText
                         /\ RequiresActionsAndEvidence(req[r].phase_instruction.template)
                         /\ ~RequiresEmptyLists(req[r].phase_instruction.template)

\* four history entries, two of them not of role user: still the exploration phase
C6_Witness ==
    \E r \in Requests :
        /\ Classified(r)
        /\ Len(req[r].history) = 4
        /\ PriorUserTurns(r) = 2
        /\ \E i \in DOMAIN req[r].history : DictGet(req[r].history[i], "role") = "User"
        /\ \E i \in DOMAIN req[r].history : "role" \notin DOMAIN req[r].history[i]
        /\ req[r].phase_instruction.template = ExplorationText

(***************************************************************************)
(* C7, as stated: the instruction sent to the completion API is the        *)
(* exploration one when the history holds at most 3 user turns, and the    *)
(* guidance one when it holds more than 3.                                 *)
(***************************************************************************)
Sent(r) == req[r].calls >= 1

InstructionSent(r) == req[r].messages[2].content

C7_Original ==
    \A r \in Requests :
        Sent(r)
            => /\ PriorUserTurns(r) <= 3 => RequiresEmptyLists(InstructionSent(r).template)
               /\ PriorUserTurns(r) > 3 => RequiresActionsAndEvidence(InstructionSent(r).template)

(***************************************************************************)
(* C7, amended: the instruction sent is the exploration one when the       *)
(* history holds at most 2 user turns, and the guidance one when it holds  *)
(* 3 or more (the current message counts as one more turn).                *)
(***************************************************************************)
C7_InstructionSentByPriorTurns ==
    \A r \in Requests :
        Sent(r)
            => /\ PriorUserTurns(r) <= 2
                      => /\ RequiresEmptyLists(InstructionSent(r).template)
                         /\ ~RequiresActionsAndEvidence(InstructionSent(r).template)
               /\ PriorUserTurns(r) >= 3
                      => /\ RequiresActionsAndEvidence(InstructionSent(r).template)
                         /\ ~RequiresEmptyLists(InstructionSent(r).template)

\* three prior user turns: with the current message the fourth turn, so guidance
C7_Witness ==
    \E r \in Requests :
        /\ Sent(r)
        /\ PriorUserTurns(r) = 3
        /\ RequiresActionsAndEvidence(InstructionSent(r).template)

(***************************************************************************)
(* C9: the completion API is called at most once for a request; from the   *)
(* call the request goes straight to a terminal state, whatever the call   *)
(* yielded; and an answered request never changes again.                   *)
(***************************************************************************)
C9_NoRetry ==
    /\ [](\A r \in Requests : req[r].calls <= 1)
    /\ [][\A r \in Requests :
             /\ Answered(r) => req'[r] = req[r]
             /\ req[r].pc = "gateway-called" => req'[r].pc \in Terminal \cup {"gateway-called"}
             /\ req'[r].calls # req[r].calls => req'[r].pc = "gateway-called"]_vars

\* a failed call answered with an error after one call
C9_Witness ==
    \E r \in Requests :
        /\ req[r].pc = "respond-error"
        /\ req[r].calls = 1
        /\ req[r].completion.kind = "raise"

(***************************************************************************)
(* C10: with requests interleaved in any way, a step changes one request   *)
(* only and neither the credential nor the canned object, and two          *)
(* requests with the same message and history that got the same            *)
(* completion are answered alike.                                          *)
(***************************************************************************)
C10_RequestsIndependent ==
    /\ [](EMERGENCY_RESPONSE = CannedEmergencyResponse)
    /\ [](\A r1, r2 \in Requests :
             (/\ Answered(r1) /\ Answered(r2)
              /\ req[r1].message = req[r2].message
              /\ req[r1].history = req[r2].history
              /\ req[r1].completion = req[r2].completion)
                 => req[r1].response = req[r2].response)
    /\ [][/\ client_api_key' = client_api_key
          /\ EMERGENCY_RESPONSE' = EMERGENCY_RESPONSE
          /\ Cardinality({r \in Requests : req'[r] # req[r]}) <= 1
          /\ \A r \in Requests : /\ req'[r].message = req[r].message
                                 /\ req'[r].history = req[r].history]_vars

\* two requests in flight at once, one answered from the canned object and
\* one from a completion
C10_Witness ==
    \E r1, r2 \in Requests :
        /\ r1 # r2
        /\ req[r1].pc = "respond-canned"
        /\ req[r2].pc = "respond-structured"

====
